---------------------------- MODULE Spec2Model ----------------------------
(***************************************************************************)
(* Model of wasenderapi/webhook.py: the signature check                    *)
(* verify_wasender_webhook_signature, the pydantic schema of the 16        *)
(* webhook event variants, validation of an inbound JSON payload against   *)
(* the WasenderWebhookEvent union, subscript lookup on a parsed event and  *)
(* re-serialization of a parsed event.                                     *)
(*                                                                         *)
(* JSON values and parsed values are tagged records [t, v] so that values  *)
(* of different JSON types can be compared.  Strings are atomic values.    *)
(***************************************************************************)
EXTENDS Integers, Sequences, FiniteSets, TLC

VARIABLES
    pc,        \* "idle" | "checked" | "parsed" | "used" | "rejected"
    payload,   \* the JSON body of the delivery being processed (JNull when idle)
    event,     \* the event object the last parse returned (JNull when none)
    ret,       \* outcome of the most recent call (verify, parse, subscript, dump)
    log        \* history of completed calls: <<[op, input, out], ...>>

vars == <<pc, payload, event, ret, log>>

----------------------------------------------------------------------------
(* Bounds of the model *)

MaxCalls == 3

----------------------------------------------------------------------------
(* JSON values *)

JNull == [t |-> "null", v |-> 0]
JStr(s) == [t |-> "str", v |-> s]
JInt(i) == [t |-> "int", v |-> i]
JBool(b) == [t |-> "bool", v |-> b]
JArr(s) == [t |-> "arr", v |-> s]
JObj(f) == [t |-> "obj", v |-> f]

\* A validated model instance: class name and a value per internal field name.
Instance(cls, f) == [t |-> "model", cls |-> cls, v |-> f]

\* Array positions in error locations and paths are written as decimal strings.
IdxStr(i) == CASE i = 1 -> "0" [] i = 2 -> "1" [] i = 3 -> "2" [] OTHER -> "n"

----------------------------------------------------------------------------
(* The event tags *)

CHATS_UPSERT == "chats.upsert"
CHATS_UPDATE == "chats.update"
CHATS_DELETE == "chats.delete"
GROUPS_UPSERT == "groups.upsert"
GROUPS_UPDATE == "groups.update"
GROUP_PARTICIPANTS_UPDATE == "group-participants.update"
CONTACTS_UPSERT == "contacts.upsert"
CONTACTS_UPDATE == "contacts.update"
MESSAGES_UPSERT == "messages.upsert"
MESSAGES_UPDATE == "messages.update"
MESSAGES_DELETE == "messages.delete"
MESSAGES_REACTION == "messages.reaction"
MESSAGE_RECEIPT_UPDATE == "message-receipt.update"
MESSAGE_SENT == "message.sent"
SESSION_STATUS == "session.status"
QRCODE_UPDATED == "qrcode.updated"

WasenderWebhookEventType ==
    { CHATS_UPSERT, CHATS_UPDATE, CHATS_DELETE,
      GROUPS_UPSERT, GROUPS_UPDATE, GROUP_PARTICIPANTS_UPDATE,
      CONTACTS_UPSERT, CONTACTS_UPDATE,
      MESSAGES_UPSERT, MESSAGES_UPDATE, MESSAGES_DELETE, MESSAGES_REACTION,
      MESSAGE_RECEIPT_UPDATE, MESSAGE_SENT, SESSION_STATUS, QRCODE_UPDATED }

----------------------------------------------------------------------------
(* Field types of the schema *)

TStr == [k |-> "str"]
TInt == [k |-> "int"]
TBool == [k |-> "bool"]
TDict == [k |-> "dict"]                          \* Dict[str, Any]
TOpt(T) == [k |-> "opt", of |-> T]               \* Optional[T]
TList(T) == [k |-> "list", of |-> T]             \* List[T]
TLit(S) == [k |-> "lit", vals |-> S]             \* Literal[...]
TUnion(A, B) == [k |-> "union", a |-> A, b |-> B]  \* Union[A, B]
TModel(cls, fields) == [k |-> "model", cls |-> cls, fields |-> fields]

\* One declared field.  alias is {} when the declaration gives none, else
\* the singleton of the wire name; req is FALSE when a default is declared.
F(name, alias, type, req) ==
    [name |-> name, alias |-> alias, type |-> type, req |-> req]

\* Reading fields by their internal names.
WireNameByName(f) == f.name

\* pydantic reads a field from its alias when it has one (populate_by_name
\* keeps its default, False), else from its name.
WireName(f) == IF f.alias = {} THEN f.name ELSE CHOOSE a \in f.alias : TRUE

----------------------------------------------------------------------------
(* The record classes *)

\* Imported from .groups; its fields are not part of this file.
GroupParticipant ==
    TModel("GroupParticipant", << F("id", {}, TStr, TRUE) >>)

MessageKey ==
    TModel("MessageKey",
      << F("id", {}, TStr, TRUE),
         F("from_me", {"fromMe"}, TBool, TRUE),
         F("remote_jid", {"remoteJid"}, TStr, TRUE),
         F("participant", {}, TOpt(TStr), FALSE) >>)

ChatEntry ==
    TModel("ChatEntry",
      << F("id", {}, TStr, TRUE),
         F("name", {}, TOpt(TStr), FALSE),
         F("conversation_timestamp", {"conversationTimestamp"}, TOpt(TInt), FALSE),
         F("unread_count", {"unreadCount"}, TOpt(TInt), FALSE),
         F("mute_end_time", {"muteEndTime"}, TOpt(TInt), FALSE),
         F("is_spam", {"isSpam"}, TOpt(TBool), FALSE) >>)

GroupMetadata ==
    TModel("GroupMetadata",
      << F("jid", {}, TStr, TRUE),
         F("subject", {}, TStr, TRUE),
         F("creation", {}, TOpt(TInt), FALSE),
         F("owner", {}, TOpt(TStr), FALSE),
         F("desc", {}, TOpt(TStr), FALSE),
         F("participants", {}, TOpt(TList(GroupParticipant)), FALSE),
         F("announce", {}, TOpt(TBool), FALSE),
         F("restrict", {}, TOpt(TBool), FALSE) >>)

GroupParticipantsUpdateData ==
    TModel("GroupParticipantsUpdateData",
      << F("jid", {}, TStr, TRUE),
         F("participants", {}, TList(TUnion(TStr, GroupParticipant)), TRUE),
         F("action", {}, TLit({"add", "remove", "promote", "demote"}), TRUE) >>)

ContactEntry ==
    TModel("ContactEntry",
      << F("jid", {}, TStr, TRUE),
         F("name", {}, TOpt(TStr), FALSE),
         F("notify", {}, TOpt(TStr), FALSE),
         F("verified_name", {"verifiedName"}, TOpt(TStr), FALSE),
         F("status", {}, TOpt(TStr), FALSE),
         F("img_url", {"imgUrl"}, TOpt(TStr), FALSE) >>)

MessageContent ==
    TModel("MessageContent",
      << F("conversation", {}, TOpt(TStr), FALSE),
         F("image_message", {"imageMessage"}, TOpt(TDict), FALSE),
         F("video_message", {"videoMessage"}, TOpt(TDict), FALSE),
         F("document_message", {"documentMessage"}, TOpt(TDict), FALSE),
         F("audio_message", {"audioMessage"}, TOpt(TDict), FALSE),
         F("sticker_message", {"stickerMessage"}, TOpt(TDict), FALSE),
         F("contact_message", {"contactMessage"}, TOpt(TDict), FALSE),
         F("location_message", {"locationMessage"}, TOpt(TDict), FALSE) >>)

MessagesUpsertData ==
    TModel("MessagesUpsertData",
      << F("key", {}, MessageKey, TRUE),
         F("message", {}, TOpt(MessageContent), FALSE),
         F("push_name", {"pushName"}, TOpt(TStr), FALSE),
         F("message_timestamp", {"messageTimestamp"}, TOpt(TInt), FALSE) >>)

MessageUpdate ==
    TModel("MessageUpdate", << F("status", {}, TStr, TRUE) >>)

MessagesUpdateDataEntry ==
    TModel("MessagesUpdateDataEntry",
      << F("key", {}, MessageKey, TRUE),
         F("update", {}, MessageUpdate, TRUE) >>)

MessagesDeleteData ==
    TModel("MessagesDeleteData", << F("keys", {}, TList(MessageKey), TRUE) >>)

Reaction ==
    TModel("Reaction",
      << F("text", {}, TStr, TRUE),
         F("key", {}, MessageKey, TRUE),
         F("sender_timestamp_ms", {"senderTimestampMs"}, TOpt(TStr), FALSE),
         F("read", {}, TOpt(TBool), FALSE) >>)

MessagesReactionDataEntry ==
    TModel("MessagesReactionDataEntry",
      << F("key", {}, MessageKey, TRUE),
         F("reaction", {}, Reaction, TRUE) >>)

Receipt ==
    TModel("Receipt",
      << F("user_jid", {"userJid"}, TStr, TRUE),
         F("status", {}, TStr, TRUE),
         F("t", {}, TOpt(TInt), FALSE) >>)

MessageReceiptUpdateDataEntry ==
    TModel("MessageReceiptUpdateDataEntry",
      << F("key", {}, MessageKey, TRUE),
         F("receipt", {}, Receipt, TRUE) >>)

MessageSentData ==
    TModel("MessageSentData",
      << F("key", {}, MessageKey, TRUE),
         F("message", {}, TOpt(MessageContent), FALSE),
         F("status", {}, TOpt(TStr), FALSE) >>)

SessionStatusData ==
    TModel("SessionStatusData",
      << F("status", {},
           TLit({"CONNECTED", "DISCONNECTED", "NEED_SCAN", "CONNECTING",
                 "LOGGED_OUT", "EXPIRED"}), TRUE),
         F("session_id", {"sessionId"}, TOpt(TStr), FALSE),
         F("reason", {}, TOpt(TStr), FALSE) >>)

QrCodeUpdatedData ==
    TModel("QrCodeUpdatedData",
      << F("qr", {}, TStr, TRUE),
         F("session_id", {"sessionId"}, TOpt(TStr), FALSE) >>)

\* The generic envelope, parametrised by the type of `event` and of `data`.
BaseWebhookEvent(EventType, DataType) ==
    TModel("BaseWebhookEvent",
      << F("event", {}, EventType, TRUE),
         F("timestamp", {}, TOpt(TInt), FALSE),
         F("data", {}, DataType, TRUE),
         F("session_id", {"sessionId"}, TOpt(TStr), FALSE) >>)

ChatsUpsertEvent == BaseWebhookEvent(TLit({CHATS_UPSERT}), TList(ChatEntry))
\* chats.update declared with the tag of chats.upsert.
ChatsUpdateEventMistagged ==
    BaseWebhookEvent(TLit({CHATS_UPSERT}), TList(ChatEntry))

ChatsUpdateEvent == BaseWebhookEvent(TLit({CHATS_UPDATE}), TList(ChatEntry))
ChatsDeleteEvent == BaseWebhookEvent(TLit({CHATS_DELETE}), TList(TStr))
GroupsUpsertEvent == BaseWebhookEvent(TLit({GROUPS_UPSERT}), TList(GroupMetadata))
GroupsUpdateEvent == BaseWebhookEvent(TLit({GROUPS_UPDATE}), TList(GroupMetadata))
GroupParticipantsUpdateEvent ==
    BaseWebhookEvent(TLit({GROUP_PARTICIPANTS_UPDATE}), GroupParticipantsUpdateData)
ContactsUpsertEvent == BaseWebhookEvent(TLit({CONTACTS_UPSERT}), TList(ContactEntry))
ContactsUpdateEvent == BaseWebhookEvent(TLit({CONTACTS_UPDATE}), TList(ContactEntry))
MessagesUpsertEvent == BaseWebhookEvent(TLit({MESSAGES_UPSERT}), MessagesUpsertData)
MessagesUpdateEvent ==
    BaseWebhookEvent(TLit({MESSAGES_UPDATE}), TList(MessagesUpdateDataEntry))
MessagesDeleteEvent == BaseWebhookEvent(TLit({MESSAGES_DELETE}), MessagesDeleteData)
MessagesReactionEvent ==
    BaseWebhookEvent(TLit({MESSAGES_REACTION}), TList(MessagesReactionDataEntry))
MessageReceiptUpdateEvent ==
    BaseWebhookEvent(TLit({MESSAGE_RECEIPT_UPDATE}), TList(MessageReceiptUpdateDataEntry))
MessageSentEvent == BaseWebhookEvent(TLit({MESSAGE_SENT}), MessageSentData)
SessionStatusEvent == BaseWebhookEvent(TLit({SESSION_STATUS}), SessionStatusData)
QrCodeUpdatedEvent == BaseWebhookEvent(TLit({QRCODE_UPDATED}), QrCodeUpdatedData)

\* The union, in declaration order.
WasenderWebhookEvent ==
    << ChatsUpsertEvent, ChatsUpdateEvent, ChatsDeleteEvent,
       GroupsUpsertEvent, GroupsUpdateEvent, GroupParticipantsUpdateEvent,
       ContactsUpsertEvent, ContactsUpdateEvent,
       MessagesUpsertEvent, MessagesUpdateEvent, MessagesDeleteEvent,
       MessagesReactionEvent,
       MessageReceiptUpdateEvent, MessageSentEvent, SessionStatusEvent,
       QrCodeUpdatedEvent >>

----------------------------------------------------------------------------
(* Validation of a JSON value against a field type (pydantic's default,    *)
(* non-strict mode).  A result is [ok, val, errs]; an error is [loc, type]. *)

Ok(val) == [ok |-> TRUE, val |-> val, errs |-> {}]
Fail(errs) == [ok |-> FALSE, val |-> JNull, errs |-> errs]
Err(loc, type) == [loc |-> loc, type |-> type]

\* Strings the non-strict integer validator parses (one-digit numerals stand
\* for all numerals; every other string of the model is not a numeral).
IntOfStr ==
    ("0" :> 0) @@ ("1" :> 1) @@ ("2" :> 2) @@ ("3" :> 3) @@ ("4" :> 4) @@
    ("5" :> 5) @@ ("6" :> 6) @@ ("7" :> 7) @@ ("8" :> 8) @@ ("9" :> 9)

\* Strings the non-strict boolean validator accepts.
BoolTrueStrs == {"1", "true", "t", "yes", "y", "on"}
BoolFalseStrs == {"0", "false", "f", "no", "n", "off"}

\* A string validator that also takes numbers and booleans.
ValidateStrCoercing(v, loc) ==
    IF v.t \in {"str", "int", "bool"} THEN Ok(JStr("coerced"))
    ELSE Fail({Err(loc, "string_type")})

ValidateStr(v, loc) ==
    IF v.t = "str" THEN Ok(v) ELSE Fail({Err(loc, "string_type")})

ValidateInt(v, loc) ==
    IF v.t = "int" THEN Ok(v)
    ELSE IF v.t = "bool" THEN Ok(JInt(IF v.v THEN 1 ELSE 0))
    ELSE IF v.t = "str"
         THEN IF v.v \in DOMAIN IntOfStr THEN Ok(JInt(IntOfStr[v.v]))
              ELSE Fail({Err(loc, "int_parsing")})
    ELSE Fail({Err(loc, "int_type")})

ValidateBool(v, loc) ==
    IF v.t = "bool" THEN Ok(v)
    ELSE IF v.t = "int"
         THEN IF v.v \in {0, 1} THEN Ok(JBool(v.v = 1))
              ELSE Fail({Err(loc, "bool_parsing")})
    ELSE IF v.t = "str"
         THEN IF v.v \in BoolTrueStrs THEN Ok(JBool(TRUE))
              ELSE IF v.v \in BoolFalseStrs THEN Ok(JBool(FALSE))
              ELSE Fail({Err(loc, "bool_parsing")})
    ELSE Fail({Err(loc, "bool_type")})

ValidateDict(v, loc) ==
    IF v.t = "obj" THEN Ok(v) ELSE Fail({Err(loc, "dict_type")})

\* Literal[...]: the input must be one of the listed strings.  A literal of
\* a str-valued enum member accepts the member's value.
ValidateLiteral(T, v, loc) ==
    IF v.t = "str" /\ v.v \in T.vals THEN Ok(v)
    ELSE Fail({Err(loc, "literal_error")})

\* Keys of the input object that no field of the class reads.
ExtraKeys(T, obj) ==
    DOMAIN obj \ { WireName(T.fields[i]) : i \in 1..Len(T.fields) }

\* Refusing undeclared keys.
ExtraErrsForbid(T, obj, loc) ==
    { Err(Append(loc, k), "extra_forbidden") : k \in ExtraKeys(T, obj) }

\* The classes declare no model_config, so extra keys are ignored.
ExtraErrs(T, obj, loc) == {}

RECURSIVE Validate(_, _, _)
ValidateList(T, v, loc) ==
    IF v.t # "arr" THEN Fail({Err(loc, "list_type")})
    ELSE LET r == [i \in 1..Len(v.v) |->
                     Validate(T.of, v.v[i], Append(loc, IdxStr(i)))]
         IN  IF \A i \in 1..Len(v.v) : r[i].ok
             THEN Ok(JArr([i \in 1..Len(v.v) |-> r[i].val]))
             ELSE Fail(UNION { r[i].errs : i \in 1..Len(v.v) })

\* Union[A, B] of a scalar and a record: the member that validates is taken,
\* the left one first.
ValidateUnion(T, v, loc) ==
    LET a == Validate(T.a, v, loc)
        b == Validate(T.b, v, loc)
    IN  IF a.ok THEN a
        ELSE IF b.ok THEN b
        ELSE Fail(a.errs \cup b.errs)

ValidateModel(T, v, loc) ==
    IF v.t # "obj" THEN Fail({Err(loc, "model_type")})
    ELSE LET n == Len(T.fields)
             r == [i \in 1..n |->
                     LET f == T.fields[i]
                         key == WireName(f)
                     IN  IF key \in DOMAIN v.v
                         THEN Validate(f.type, v.v[key], Append(loc, key))
                         ELSE IF f.req
                              THEN Fail({Err(Append(loc, key), "missing")})
                              ELSE Ok(JNull)]
             extra == ExtraErrs(T, v.v, loc)
             names == { T.fields[i].name : i \in 1..n }
         IN  IF (\A i \in 1..n : r[i].ok) /\ extra = {}
             THEN Ok(Instance(T.cls,
                       [nm \in names |->
                          r[CHOOSE i \in 1..n : T.fields[i].name = nm].val]))
             ELSE Fail(UNION { r[i].errs : i \in 1..n } \cup extra)

Validate(T, v, loc) ==
    CASE T.k = "str"   -> ValidateStr(v, loc)
      [] T.k = "int"   -> ValidateInt(v, loc)
      [] T.k = "bool"  -> ValidateBool(v, loc)
      [] T.k = "dict"  -> ValidateDict(v, loc)
      [] T.k = "lit"   -> ValidateLiteral(T, v, loc)
      [] T.k = "opt"   -> IF v.t = "null" THEN Ok(JNull)
                          ELSE Validate(T.of, v, loc)
      [] T.k = "list"  -> ValidateList(T, v, loc)
      [] T.k = "union" -> ValidateUnion(T, v, loc)
      [] T.k = "model" -> ValidateModel(T, v, loc)

----------------------------------------------------------------------------
(* Validation against the union WasenderWebhookEvent *)

\* The tag a variant's `event` field is declared with.
VariantTag(i) == CHOOSE x \in WasenderWebhookEvent[i].fields[1].type.vals : TRUE
VariantData(i) == WasenderWebhookEvent[i].fields[3].type

\* The variants that accept the payload.
Accepting(p) ==
    { i \in 1..Len(WasenderWebhookEvent) :
        Validate(WasenderWebhookEvent[i], p, <<>>).ok }

\* The union is a plain typing.Union: every variant is tried; the payload is
\* an event of the (leftmost) variant that validates, and when none does the
\* one ValidationError carries every variant's errors.
ParseEvent(p) ==
    LET n == Len(WasenderWebhookEvent)
        r == [i \in 1..n |-> Validate(WasenderWebhookEvent[i], p, <<>>)]
        acc == { i \in 1..n : r[i].ok }
    IN  IF acc # {}
        THEN LET i == CHOOSE j \in acc : \A m \in acc : j <= m
             IN  [ok |-> TRUE, kind |-> "event", variant |-> i,
                  event |-> r[i].val, errs |-> {}]
        ELSE [ok |-> FALSE, kind |-> "ValidationError", variant |-> 0,
              event |-> JNull,
              errs |-> UNION { { [variant |-> VariantTag(i), loc |-> e.loc,
                                  type |-> e.type] : e \in r[i].errs }
                               : i \in 1..n }]

----------------------------------------------------------------------------
(* The signature check *)

\* Python truthiness of an Optional[str]: None and "" are falsy.
Truthy(x) == x.t = "str" /\ x.v # ""

\* A check that holds for any two non-empty strings.
VerifyAnyNonEmpty(request_signature, configured_secret) ==
    [kind |-> "return",
     val |-> Truthy(request_signature) /\ Truthy(configured_secret)]

\* A check without the guard on missing inputs.
VerifyNoGuard(request_signature, configured_secret) ==
    [kind |-> "return", val |-> (request_signature = configured_secret)]

verify_wasender_webhook_signature(request_signature, configured_secret) ==
    IF ~Truthy(request_signature) \/ ~Truthy(configured_secret)
    THEN [kind |-> "return", val |-> FALSE]
    ELSE [kind |-> "return", val |-> (request_signature = configured_secret)]

----------------------------------------------------------------------------
(* Subscript lookup, BaseWebhookEvent.__getitem__ *)

\* Attributes of an event object that are not fields: __getitem__ itself
\* reads self.model_fields.
ClassAttributes == {"model_fields"}

\* getattr(self, key): a field's value, a class attribute, or AttributeError.
GetAttr(ev, key) ==
    IF key \in DOMAIN ev.v THEN [kind |-> "return", val |-> ev.v[key]]
    ELSE IF key \in ClassAttributes
         THEN [kind |-> "return", val |-> [t |-> "attr", v |-> key]]
    ELSE [kind |-> "AttributeError", val |-> JStr(key)]

\* T is the event's class (its model_fields).
GetItem(T, ev, key) ==
    LET got == GetAttr(ev, key)
        hit == { i \in 1..Len(T.fields) : T.fields[i].alias = {key} }
    IN  IF got.kind = "return" THEN got
        ELSE IF hit # {}
             THEN LET i == CHOOSE j \in hit : \A m \in hit : j <= m
                  IN  [kind |-> "return", val |-> ev.v[T.fields[i].name]]
        ELSE [kind |-> "KeyError", val |-> JStr(key)]

----------------------------------------------------------------------------
(* Re-serialization of a validated value, BaseModel.model_dump in JSON     *)
(* mode: by_alias selects the wire names, and is False unless asked for.   *)

\* Serializing under the internal names whatever was asked.
DumpKeyByName(f, by_alias) == f.name

DumpKey(f, by_alias) == IF by_alias THEN WireName(f) ELSE f.name

RECURSIVE Dump(_, _, _)
Dump(T, pv, by_alias) ==
    CASE pv.t = "null"  -> JNull
      [] pv.t = "arr"   -> JArr([i \in 1..Len(pv.v) |->
                                   Dump(T.of, pv.v[i], by_alias)])
      [] pv.t = "model" ->
            LET M == IF T.k = "union" THEN T.b ELSE T
                n == Len(M.fields)
                keys == { DumpKey(M.fields[i], by_alias) : i \in 1..n }
            IN  JObj([k \in keys |->
                       LET f == M.fields[CHOOSE i \in 1..n :
                                           DumpKey(M.fields[i], by_alias) = k]
                           FT == IF f.type.k = "opt" THEN f.type.of ELSE f.type
                       IN  Dump(FT, pv.v[f.name], by_alias)])
      [] OTHER          -> pv

----------------------------------------------------------------------------
(* Inbound bodies: one valid sample per tag, and the ways a sender's body  *)
(* may depart from it.                                                     *)

KeyJson ==
    JObj([id |-> JStr("m1"), fromMe |-> JBool(TRUE),
          remoteJid |-> JStr("1@s.whatsapp.net")])

ChatJson == JObj([id |-> JStr("c1"), unreadCount |-> JInt(2)])
GroupJson == JObj([jid |-> JStr("g1"), subject |-> JStr("team")])
ContactJson == JObj([jid |-> JStr("u1"), verifiedName |-> JStr("Ann")])

SampleData(tag) ==
    CASE tag = CHATS_UPSERT -> JArr(<< ChatJson >>)
      [] tag = CHATS_UPDATE -> JArr(<< ChatJson >>)
      [] tag = CHATS_DELETE ->
            JArr(<< JStr("1@s.whatsapp.net"), JStr("2@s.whatsapp.net") >>)
      [] tag = GROUPS_UPSERT -> JArr(<< GroupJson >>)
      [] tag = GROUPS_UPDATE -> JArr(<< GroupJson >>)
      [] tag = GROUP_PARTICIPANTS_UPDATE ->
            JObj([jid |-> JStr("g1"),
                  participants |-> JArr(<< JStr("1@s.whatsapp.net") >>),
                  action |-> JStr("add")])
      [] tag = CONTACTS_UPSERT -> JArr(<< ContactJson >>)
      [] tag = CONTACTS_UPDATE -> JArr(<< ContactJson >>)
      [] tag = MESSAGES_UPSERT ->
            JObj([key |-> KeyJson, pushName |-> JStr("Ann"),
                  message |-> JObj([conversation |-> JStr("hi")])])
      [] tag = MESSAGES_UPDATE ->
            JArr(<< JObj([key |-> KeyJson,
                          update |-> JObj([status |-> JStr("read")])]) >>)
      [] tag = MESSAGES_DELETE -> JObj([keys |-> JArr(<< KeyJson >>)])
      [] tag = MESSAGES_REACTION ->
            JArr(<< JObj([key |-> KeyJson,
                          reaction |-> JObj([text |-> JStr("+"),
                                             key |-> KeyJson])]) >>)
      [] tag = MESSAGE_RECEIPT_UPDATE ->
            JArr(<< JObj([key |-> KeyJson,
                          receipt |-> JObj([userJid |-> JStr("u1"),
                                            status |-> JStr("read")])]) >>)
      [] tag = MESSAGE_SENT -> JObj([key |-> KeyJson, status |-> JStr("sent")])
      [] tag = SESSION_STATUS ->
            JObj([status |-> JStr("CONNECTED"), sessionId |-> JStr("s1")])
      [] tag = QRCODE_UPDATED ->
            JObj([qr |-> JStr("abc123"), sessionId |-> JStr("s1")])

Sample(tag) ==
    JObj([event |-> JStr(tag), timestamp |-> JInt(1), data |-> SampleData(tag),
          sessionId |-> JStr("s1")])

\* Values a sender may put under a key.
EditValues ==
    { JNull, JStr("BOGUS"), JStr("1"), JInt(1), JBool(TRUE), JObj(<<>>) }

\* The snake_case spelling of each camelCase wire name the samples use.
SnakeCase ==
    ("sessionId" :> "session_id") @@ ("fromMe" :> "from_me") @@
    ("remoteJid" :> "remote_jid") @@ ("unreadCount" :> "unread_count") @@
    ("verifiedName" :> "verified_name") @@ ("pushName" :> "push_name") @@
    ("userJid" :> "user_jid")

\* Keys a sender may add to an object: undeclared ones, internal names, and
\* optional fields the samples leave out.
AddedKeys ==
    { "extra", "from_me", "session_id", "participant", "name", "reason",
      "imageMessage" }

\* Paths to the objects and arrays inside a JSON value.
RECURSIVE Containers(_)
Containers(v) ==
    IF v.t = "obj"
    THEN {<<>>} \cup UNION { { <<k>> \o q : q \in Containers(v.v[k]) }
                             : k \in DOMAIN v.v }
    ELSE IF v.t = "arr"
    THEN {<<>>} \cup UNION { { <<IdxStr(i)>> \o q : q \in Containers(v.v[i]) }
                             : i \in 1..Len(v.v) }
    ELSE {}

\* The position an array path element names.
ArrIdx(v, s) == CHOOSE i \in 1..Len(v.v) : IdxStr(i) = s

RECURSIVE At(_, _)
At(v, path) ==
    IF path = <<>> THEN v
    ELSE IF v.t = "obj" THEN At(v.v[Head(path)], Tail(path))
    ELSE At(v.v[ArrIdx(v, Head(path))], Tail(path))

\* v with the container at path replaced by c.
RECURSIVE Replace(_, _, _)
Replace(v, path, c) ==
    IF path = <<>> THEN c
    ELSE IF v.t = "obj"
    THEN JObj([k \in DOMAIN v.v |->
                 IF k = Head(path) THEN Replace(v.v[k], Tail(path), c)
                 ELSE v.v[k]])
    ELSE JArr([i \in 1..Len(v.v) |->
                 IF i = ArrIdx(v, Head(path))
                 THEN Replace(v.v[i], Tail(path), c) ELSE v.v[i]])

WithKey(o, k, x) ==
    JObj([j \in DOMAIN o.v \cup {k} |-> IF j = k THEN x ELSE o.v[j]])
WithoutKey(o, k) == JObj([j \in DOMAIN o.v \ {k} |-> o.v[j]])
Renamed(o, k, k2) == WithKey(WithoutKey(o, k), k2, o.v[k])

\* The bodies that depart from body s in one place: one object carries a key
\* with another value or an added key, lacks a key, or spells a wire name in
\* snake_case; one array carries another element; or the body names another
\* recognized tag.
OneDefect(s) ==
    LET objs == { q \in Containers(s) : At(s, q).t = "obj" }
        arrs == { q \in Containers(s) : At(s, q).t = "arr" }
    IN  UNION { LET o == At(s, q)
                IN  { Replace(s, q, WithKey(o, k, x)) :
                        k \in DOMAIN o.v \cup AddedKeys, x \in EditValues }
                    \cup { Replace(s, q, WithoutKey(o, k)) : k \in DOMAIN o.v }
                    \cup { Replace(s, q, Renamed(o, k, SnakeCase[k])) :
                             k \in DOMAIN o.v \cap DOMAIN SnakeCase }
                : q \in objs }
        \cup UNION { LET a == At(s, q)
                     IN  { Replace(s, q, JArr([a.v EXCEPT ![i] = x])) :
                             i \in 1..Len(a.v), x \in EditValues }
                     : q \in arrs }
        \cup { WithKey(s, "event", JStr(tag)) : tag \in WasenderWebhookEventType }

Samples == { Sample(tag) : tag \in WasenderWebhookEventType }

\* The bodies deliveries carry: the samples, the bodies one defect away from
\* a sample, and samples and defective bodies with an unknown tag or no tag.
Bodies ==
    LET near == Samples \cup UNION { OneDefect(s) : s \in Samples }
        some == Samples \cup OneDefect(Sample(MESSAGES_UPSERT))
                        \cup OneDefect(Sample(CHATS_DELETE))
    IN  near \cup { WithKey(b, "event", JStr("unknown.tag")) : b \in some }
             \cup { WithoutKey(b, "event") : b \in some }

\* The bodies of the deliveries whose history is followed.
SeqBodies ==
    { Sample(QRCODE_UPDATED), Sample(CHATS_DELETE),
      WithKey(Sample(QRCODE_UPDATED), "event", JStr("unknown.tag")),
      Replace(Sample(MESSAGES_UPSERT), <<"data", "key">>, WithoutKey(KeyJson, "id")) }

----------------------------------------------------------------------------
(* The state machine of one handler processing deliveries *)

NoCall == [op |-> "none"]

\* Some Optional[str] header values and secrets.
Signatures ==
    { JNull, JStr(""), JStr("s3cret"), JStr("S3CRET"), JStr("s3cre"),
      JStr("s3cret "), JStr(" "), JStr("0"), JStr("None"), JStr("x"), JStr("s3cret\n") }

SeqSignatures == { JNull, JStr("s3cret"), JStr("S3CRET") }

\* Keys looked up on a parsed event.
LookupKeys ==
    { "event", "timestamp", "data", "session_id", "sessionId",
      "model_fields", "fromMe", "extra" }

Init ==
    /\ pc = "idle"
    /\ payload = JNull
    /\ event = JNull
    /\ ret = NoCall
    /\ log = <<>>

\* verify_wasender_webhook_signature(sig, secret) is called.
VerifyCall(sig, secret) ==
    /\ pc = "idle"
    /\ ret' = [op |-> "verify", sig |-> sig, secret |-> secret,
               out |-> verify_wasender_webhook_signature(sig, secret)]
    /\ pc' = "checked"
    /\ UNCHANGED <<payload, event>>

\* The body b of a delivery is validated against the union.
ParseCall(b) ==
    /\ pc = "idle"
    /\ payload' = b
    /\ LET r == ParseEvent(b)
       IN  /\ ret' = [op |-> "parse", out |-> r]
           /\ event' = r.event
           /\ pc' = IF r.ok THEN "parsed" ELSE "rejected"

\* The class of a parsed event: the variant its tag belongs to.
ClassOf(ev) ==
    WasenderWebhookEvent[CHOOSE i \in 1..Len(WasenderWebhookEvent) :
                           VariantTag(i) = ev.v.event.v]

\* event[key]
Subscript(key) ==
    /\ pc = "parsed"
    /\ ret' = [op |-> "getitem", key |-> key,
               out |-> GetItem(ClassOf(event), event, key)]
    /\ pc' = "used"
    /\ UNCHANGED <<payload, event, log>>

\* The parsed event is serialized again.
Serialize(by_alias) ==
    /\ pc = "parsed"
    /\ ret' = [op |-> "dump", by_alias |-> by_alias,
               out |-> Dump(ClassOf(event), event, by_alias)]
    /\ pc' = "used"
    /\ UNCHANGED <<payload, event, log>>

\* The caller is done with the call's result; the body and the event object
\* are dropped.
Finish ==
    /\ pc \in {"checked", "parsed", "used", "rejected"}
    /\ pc' = "idle"
    /\ payload' = JNull
    /\ event' = JNull
    /\ ret' = NoCall
    /\ UNCHANGED log

Verify(sig, secret) == VerifyCall(sig, secret) /\ UNCHANGED log
Parse(b) == ParseCall(b) /\ UNCHANGED log

\* Deliveries are parsed and the parsed event is used.
Next ==
    \/ \E b \in Bodies : Parse(b)
    \/ \E key \in LookupKeys : Subscript(key)
    \/ \E by_alias \in BOOLEAN : Serialize(by_alias)
    \/ Finish

Spec == Init /\ [][Next]_vars

\* Signatures are checked.
NextVerify ==
    \/ \E sig \in Signatures, secret \in Signatures : Verify(sig, secret)
    \/ Finish

SpecVerify == Init /\ [][NextVerify]_vars

----------------------------------------------------------------------------
(* A sequence of deliveries, with the history of the calls made *)

Called == [op |-> ret'.op,
           input |-> IF ret'.op = "verify" THEN <<ret'.sig, ret'.secret>>
                     ELSE <<payload'>>,
           out |-> ret'.out]

VerifyLogged(sig, secret) ==
    /\ Len(log) < MaxCalls
    /\ VerifyCall(sig, secret)
    /\ log' = Append(log, Called)

ParseFailed(c) == c.op = "parse" /\ ~c.out.ok

\* A parse that fails when the call before it failed.
DeliverSticky(b) ==
    /\ Len(log) < MaxCalls
    /\ pc = "idle"
    /\ payload' = b
    /\ LET r == IF log # <<>> /\ ParseFailed(log[Len(log)])
                THEN log[Len(log)].out ELSE ParseEvent(b)
       IN  /\ ret' = [op |-> "parse", out |-> r]
           /\ event' = r.event
           /\ pc' = IF r.ok THEN "parsed" ELSE "rejected"
    /\ log' = Append(log, Called)

Deliver(b) ==
    /\ Len(log) < MaxCalls
    /\ ParseCall(b)
    /\ log' = Append(log, Called)

NextSeq ==
    \/ \E sig \in SeqSignatures, secret \in SeqSignatures :
          VerifyLogged(sig, secret)
    \/ \E b \in SeqBodies : Deliver(b)
    \/ Finish

SpecSeq == Init /\ [][NextSeq]_vars

----------------------------------------------------------------------------
(* Vocabulary of the properties *)

\* The tag a body names ("" when it names none).
TagOf(p) ==
    IF p.t = "obj" /\ "event" \in DOMAIN p.v /\ p.v.event.t = "str"
    THEN p.v.event.v ELSE ""

Recognized(p) == TagOf(p) \in WasenderWebhookEventType

\* The payload shape the data model's table assigns to each tag.
TableShape(tag) ==
    CASE tag \in {CHATS_UPSERT, CHATS_UPDATE} -> TList(ChatEntry)
      [] tag = CHATS_DELETE -> TList(TStr)
      [] tag \in {GROUPS_UPSERT, GROUPS_UPDATE} -> TList(GroupMetadata)
      [] tag = GROUP_PARTICIPANTS_UPDATE -> GroupParticipantsUpdateData
      [] tag \in {CONTACTS_UPSERT, CONTACTS_UPDATE} -> TList(ContactEntry)
      [] tag = MESSAGES_UPSERT -> MessagesUpsertData
      [] tag = MESSAGES_UPDATE -> TList(MessagesUpdateDataEntry)
      [] tag = MESSAGES_DELETE -> MessagesDeleteData
      [] tag = MESSAGES_REACTION -> TList(MessagesReactionDataEntry)
      [] tag = MESSAGE_RECEIPT_UPDATE -> TList(MessageReceiptUpdateDataEntry)
      [] tag = MESSAGE_SENT -> MessageSentData
      [] tag = SESSION_STATUS -> SessionStatusData
      [] tag = QRCODE_UPDATED -> QrCodeUpdatedData

\* The envelope of a tag: event, optional timestamp, data, optional sessionId.
TableEnvelope(tag) ==
    TModel("BaseWebhookEvent",
      << F("event", {}, TLit({tag}), TRUE),
         F("timestamp", {}, TOpt(TInt), FALSE),
         F("data", {}, TableShape(tag), TRUE),
         F("session_id", {"sessionId"}, TOpt(TStr), FALSE) >>)

\* The wire name the data model documents for a field.
DocumentedName(f) == IF f.alias = {} THEN f.name ELSE CHOOSE a \in f.alias : TRUE

----------------------------------------------------------------------------
(* C1, C2: the signature check *)

\* C1: for non-empty strings s and t, verify(s, t) returns true if and only
\* if s and t are exactly equal.
C1_VerifyIffEqual ==
    (ret.op = "verify" /\ Truthy(ret.sig) /\ Truthy(ret.secret))
        => ret.out = [kind |-> "return", val |-> (ret.sig.v = ret.secret.v)]

\* Two non-empty strings that differ only in case were compared and refused.
C1_Witness ==
    /\ ret.op = "verify"
    /\ ret.sig = JStr("S3CRET")
    /\ ret.secret = JStr("s3cret")
    /\ ret.out.val = FALSE

\* C2: the check never raises and returns a boolean, and returns false
\* whenever the signature or the secret is None or the empty string.
C2_VerifyTotalFalseOnMissing ==
    ret.op = "verify"
        => /\ ret.out.kind = "return"
           /\ ret.out.val \in BOOLEAN
           /\ (~Truthy(ret.sig) \/ ~Truthy(ret.secret)) => ret.out.val = FALSE

\* Both inputs were None and the check returned false.
C2_Witness ==
    /\ ret.op = "verify"
    /\ ret.sig = JNull
    /\ ret.secret = JNull
    /\ ret.out = [kind |-> "return", val |-> FALSE]

----------------------------------------------------------------------------
(* C3, C9: sequences of calls *)

\* C3: a body whose tag is absent or unrecognized fails with an error kind of
\* its own, distinct from the kind a recognized tag's shape mismatch fails
\* with, and yields no event.
C3_UnknownEventTypeKind ==
    \A i \in DOMAIN log :
        (log[i].op = "parse" /\ ~Recognized(log[i].input[1]))
            => /\ ~log[i].out.ok
               /\ log[i].out.event = JNull
               /\ \A j \in DOMAIN log :
                    (ParseFailed(log[j]) /\ Recognized(log[j].input[1]))
                        => log[j].out.kind # log[i].out.kind

----------------------------------------------------------------------------
(* C4: the variant a successful parse returns *)

\* C4: a successful parse returns the variant of exactly one tag: one variant
\* accepts the body, the event's tag is the body's `event` value, and its
\* data is the body's `data` read with the shape the table assigns to the tag.
C4_ExactlyOneVariant ==
    (ret.op = "parse" /\ ret.out.ok)
        => /\ Recognized(payload)
           /\ Cardinality(Accepting(payload)) = 1
           /\ VariantTag(ret.out.variant) = TagOf(payload)
           /\ event.v.event = JStr(TagOf(payload))
           /\ "data" \in DOMAIN payload.v
           /\ LET d == Validate(TableShape(TagOf(payload)), payload.v.data,
                                <<"data">>)
              IN  d.ok /\ event.v.data = d.val

\* The chats.upsert sample, sent under the tag chats.update, was parsed as a
\* chats.update event.
C4_Witness ==
    /\ ret.op = "parse"
    /\ payload = WithKey(Sample(CHATS_UPSERT), "event", JStr(CHATS_UPDATE))
    /\ ret.out.ok
    /\ ret.out.variant = 2
    /\ event.v.event = JStr(CHATS_UPDATE)

----------------------------------------------------------------------------
(* C5: shape mismatches of a recognized tag *)

\* Whether JSON value v has primitive type k; with lax, also whether the
\* non-strict validators convert it to k.
ScalarMatches(k, v, lax) ==
    CASE k = "str"  -> v.t = "str"
      [] k = "dict" -> v.t = "obj"
      [] k = "int"  -> \/ v.t = "int"
                       \/ lax /\ v.t = "bool"
                       \/ lax /\ v.t = "str" /\ v.v \in DOMAIN IntOfStr
      [] k = "bool" -> \/ v.t = "bool"
                       \/ lax /\ v.t = "int" /\ v.v \in {0, 1}
                       \/ lax /\ v.t = "str"
                              /\ v.v \in BoolTrueStrs \cup BoolFalseStrs

\* The field paths at which v does not match shape T: a required field is
\* missing, a value has the wrong type, or a closed-enum value is outside
\* its set.
RECURSIVE Mismatches(_, _, _, _)
Mismatches(T, v, loc, lax) ==
    CASE T.k \in {"str", "int", "bool", "dict"} ->
            IF ScalarMatches(T.k, v, lax) THEN {} ELSE {loc}
      [] T.k = "lit" ->
            IF v.t = "str" /\ v.v \in T.vals THEN {} ELSE {loc}
      [] T.k = "opt" ->
            IF v.t = "null" THEN {} ELSE Mismatches(T.of, v, loc, lax)
      [] T.k = "list" ->
            IF v.t # "arr" THEN {loc}
            ELSE UNION { Mismatches(T.of, v.v[i], Append(loc, IdxStr(i)), lax)
                         : i \in 1..Len(v.v) }
      [] T.k = "union" ->
            LET a == Mismatches(T.a, v, loc, lax)
                b == Mismatches(T.b, v, loc, lax)
            IN  IF a = {} \/ b = {} THEN {} ELSE a \cup b
      [] T.k = "model" ->
            IF v.t # "obj" THEN {loc}
            ELSE UNION { LET f == T.fields[i]
                             w == DocumentedName(f)
                         IN  IF w \in DOMAIN v.v
                             THEN Mismatches(f.type, v.v[w], Append(loc, w), lax)
                             ELSE IF f.req THEN {Append(loc, w)} ELSE {}
                         : i \in 1..Len(T.fields) }

\* The mismatches of a body's data against the shape of the body's tag.
DataMismatches(p, lax) ==
    IF Recognized(p) /\ "data" \in DOMAIN p.v
    THEN Mismatches(TableShape(TagOf(p)), p.v.data, <<"data">>, lax)
    ELSE {}

\* The parse was refused with a validation error naming every path in M
\* under the body's tag.
RejectedNaming(M) ==
    /\ ~ret.out.ok
    /\ ret.out.kind = "ValidationError"
    /\ event = JNull
    /\ \A loc \in M : \E e \in ret.out.errs :
          e.variant = TagOf(payload) /\ e.loc = loc

\* C5 as stated: for a recognized tag, data with a missing required field,
\* a present field of another primitive type than declared, or a closed-enum
\* value outside its set is rejected, naming the field path.
C5_AnyWrongTypeRejected ==
    (ret.op = "parse" /\ DataMismatches(payload, FALSE) # {})
        => RejectedNaming(DataMismatches(payload, FALSE))

\* C5, amended: for a recognized tag, data with a missing required field, a
\* closed-enum value outside its set, or a present field whose value the
\* non-strict validators cannot convert to the declared type is rejected
\* with a validation error naming the field path, and yields no event;
\* data whose only departures are convertible values (a numeral string or a
\* boolean for an integer, 0, 1 or a boolean word for a boolean) is accepted.
C5_UnconvertibleRejected ==
    ret.op = "parse"
        => /\ DataMismatches(payload, TRUE) # {}
                => RejectedNaming(DataMismatches(payload, TRUE))
           /\ (Recognized(payload)
               /\ Mismatches(TableEnvelope(TagOf(payload)), payload, <<>>, TRUE) = {})
                => ret.out.ok

\* messages.upsert without key.id was rejected with an error at data.key.id.
C5_Witness ==
    /\ ret.op = "parse"
    /\ payload = Replace(Sample(MESSAGES_UPSERT), <<"data", "key">>,
                         WithoutKey(KeyJson, "id"))
    /\ ~ret.out.ok
    /\ [variant |-> MESSAGES_UPSERT, loc |-> <<"data", "key", "id">>,
        type |-> "missing"] \in ret.out.errs

----------------------------------------------------------------------------
(* C6: fields are read from their wire names *)

\* Whether validated value pv carries, in every record of v read with shape
\* T, each aliased field from the wire name alone: the value under the wire
\* name when the body has one, nothing when it has none.
RECURSIVE ReadFromWire(_, _, _)
ReadFromWire(T, v, pv) ==
    CASE T.k = "opt" -> v.t = "null" \/ ReadFromWire(T.of, v, pv)
      [] T.k = "list" ->
            \A i \in 1..Len(v.v) : ReadFromWire(T.of, v.v[i], pv.v[i])
      [] T.k = "union" ->
            IF v.t = "obj" THEN ReadFromWire(T.b, v, pv) ELSE TRUE
      [] T.k = "model" ->
            \A i \in 1..Len(T.fields) :
                LET f == T.fields[i]
                    w == DocumentedName(f)
                    FT == IF f.type.k = "opt" THEN f.type.of ELSE f.type
                IN  IF w \in DOMAIN v.v
                    THEN /\ v.v[w].t # "null" => pv.v[f.name].t # "null"
                         /\ (FT.k \in {"str", "int", "bool"} /\ v.v[w].t = FT.k)
                                => pv.v[f.name] = v.v[w]
                         /\ ReadFromWire(f.type, v.v[w], pv.v[f.name])
                    ELSE pv.v[f.name] = JNull
      [] OTHER -> TRUE

\* The paths of the required aliased fields a body lacks under the wire name.
RECURSIVE MissingWire(_, _, _)
MissingWire(T, v, loc) ==
    CASE T.k = "opt" ->
            IF v.t = "null" THEN {} ELSE MissingWire(T.of, v, loc)
      [] T.k = "list" ->
            IF v.t # "arr" THEN {}
            ELSE UNION { MissingWire(T.of, v.v[i], Append(loc, IdxStr(i)))
                         : i \in 1..Len(v.v) }
      [] T.k = "model" ->
            IF v.t # "obj" THEN {}
            ELSE UNION { LET f == T.fields[i]
                             w == DocumentedName(f)
                         IN  IF w \in DOMAIN v.v
                             THEN MissingWire(f.type, v.v[w], Append(loc, w))
                             ELSE IF f.req /\ f.alias # {}
                                  THEN {Append(loc, w)} ELSE {}
                         : i \in 1..Len(T.fields) }
      [] OTHER -> {}

\* C6: every field with a distinct wire name is read from the wire name: a
\* value under the wire name populates the field, and a value only under
\* the snake_case name does not (a required field is reported missing at the
\* wire name's path, an optional one stays absent).
C6_ReadFromWireName ==
    (ret.op = "parse" /\ Recognized(payload))
        => LET T == TableEnvelope(TagOf(payload))
           IN  /\ ret.out.ok => ReadFromWire(T, payload, event)
               /\ \A loc \in MissingWire(T, payload, <<>>) :
                     /\ ~ret.out.ok
                     /\ [variant |-> TagOf(payload), loc |-> loc,
                         type |-> "missing"] \in ret.out.errs
               /\ payload \in Samples => ret.out.ok

\* A messages.upsert body spelling key.fromMe as from_me was rejected with
\* fromMe reported missing.
C6_Witness ==
    /\ ret.op = "parse"
    /\ payload = Replace(Sample(MESSAGES_UPSERT), <<"data", "key">>,
                         Renamed(KeyJson, "fromMe", "from_me"))
    /\ ~ret.out.ok
    /\ [variant |-> MESSAGES_UPSERT, loc |-> <<"data", "key", "fromMe">>,
        type |-> "missing"] \in ret.out.errs

----------------------------------------------------------------------------
(* C7: undeclared keys are ignored *)

\* v without the keys that are no declared field of the record they are in.
RECURSIVE StripExtras(_, _)
StripExtras(T, v) ==
    CASE T.k = "opt" -> IF v.t = "null" THEN v ELSE StripExtras(T.of, v)
      [] T.k = "list" ->
            IF v.t # "arr" THEN v
            ELSE JArr([i \in 1..Len(v.v) |-> StripExtras(T.of, v.v[i])])
      [] T.k = "union" -> IF v.t = "obj" THEN StripExtras(T.b, v) ELSE v
      [] T.k = "model" ->
            IF v.t # "obj" THEN v
            ELSE LET n == Len(T.fields)
                     declared == { DocumentedName(T.fields[i]) : i \in 1..n }
                 IN  JObj([k \in DOMAIN v.v \cap declared |->
                             StripExtras(
                               T.fields[CHOOSE i \in 1..n :
                                          DocumentedName(T.fields[i]) = k].type,
                               v.v[k])])
      [] OTHER -> v

\* A body without its undeclared keys.
Stripped(p) ==
    IF Recognized(p) THEN StripExtras(TableEnvelope(TagOf(p)), p) ELSE p

\* C7: undeclared keys in any record are ignored: a body whose declared part
\* is valid parses, and to the same event as that part alone.
C7_ExtrasIgnored ==
    (ret.op = "parse" /\ Stripped(payload) # payload)
        => LET r == ParseEvent(Stripped(payload))
           IN  /\ r.ok = ret.out.ok
               /\ r.event = event

\* A messages.upsert body with an undeclared key inside data.key was parsed.
C7_Witness ==
    /\ ret.op = "parse"
    /\ payload = Replace(Sample(MESSAGES_UPSERT), <<"data", "key">>,
                         WithKey(KeyJson, "extra", JStr("BOGUS")))
    /\ ret.out.ok
    /\ event = ParseEvent(Sample(MESSAGES_UPSERT)).event

----------------------------------------------------------------------------
(* C8: parsing, serializing and parsing again *)

\* Whether JSON value b carries everything a carries: every key of every
\* object with its value, every array with the same elements in order.
RECURSIVE Preserves(_, _)
Preserves(a, b) ==
    CASE a.t = "obj" ->
            /\ b.t = "obj"
            /\ \A k \in DOMAIN a.v :
                  k \in DOMAIN b.v /\ Preserves(a.v[k], b.v[k])
      [] a.t = "arr" ->
            /\ b.t = "arr"
            /\ Len(b.v) = Len(a.v)
            /\ \A i \in 1..Len(a.v) : Preserves(a.v[i], b.v[i])
      [] OTHER -> b = a

\* The serialized event carries the recognized fields of the body under
\* their wire names, carries no undeclared key, and parses to the same event.
RoundTrips ==
    /\ Preserves(Stripped(payload), ret.out)
    /\ Stripped(ret.out) = ret.out
    /\ LET r == ParseEvent(ret.out)
       IN  r.ok /\ r.event = event

\* C8 as stated: a valid sample of any tag, with or without undeclared keys,
\* parses and re-serializes preserving its recognized fields under their
\* wire names and in order, and the output parses to the same event.
C8_RoundTripAnySerialization ==
    (ret.op = "dump" /\ Stripped(payload) \in Samples) => RoundTrips

\* C8, amended: the same, for serialization by alias (by_alias = True).
C8_RoundTripByAlias ==
    (ret.op = "dump" /\ ret.by_alias /\ Stripped(payload) \in Samples)
        => RoundTrips

\* The chats.delete sample was parsed and serialized by alias with its two
\* chat ids in order.
C8_Witness ==
    /\ ret.op = "dump"
    /\ ret.by_alias
    /\ payload = Sample(CHATS_DELETE)
    /\ ret.out.v.data = JArr(<< JStr("1@s.whatsapp.net"),
                                JStr("2@s.whatsapp.net") >>)
    /\ ret.out.v.sessionId = JStr("s1")

----------------------------------------------------------------------------
(* C10: subscript lookup *)

\* C10: event[key] returns the envelope field whose internal name or wire
\* alias is key, raises KeyError for every other key, and leaves the event
\* as it was parsed.
C10_SubscriptFieldsOnly ==
    ret.op = "getitem"
        => LET fs == ClassOf(event).fields
               named == { i \in 1..Len(fs) :
                            fs[i].name = ret.key \/ fs[i].alias = {ret.key} }
           IN  /\ \A i \in named :
                     ret.out = [kind |-> "return", val |-> event.v[fs[i].name]]
               /\ named = {} => ret.out.kind = "KeyError"
               /\ event = ParseEvent(payload).event

=============================================================================
